---- MODULE Spec2Model ----
(***************************************************************************)
(* Model of sleeper_league_analyzer.py: the sequential run of main()       *)
(* (fetch -> join -> rank -> export) and the per-team computations of its  *)
(* roster loop.                                                            *)
(*                                                                         *)
(* Python dicts are functions; dict.get(k, d) is Get.  Point values are    *)
(* integers counting thousandths of a fantasy point (85.4 is 85400), so    *)
(* that round(x, 2) is a real conversion.                                  *)
(***************************************************************************)
EXTENDS Integers, Sequences, FiniteSets, TLC

VARIABLES pc, exit_code, requests, failed, proj_status,
          users, rosters, matchups, weekly_projections,
          teams_data, proj_trace, active_teams,
          csv_rows, xlsx_rows, console_rows, files

vars == <<pc, exit_code, requests, failed, proj_status,
          users, rosters, matchups, weekly_projections,
          teams_data, proj_trace, active_teams,
          csv_rows, xlsx_rows, console_rows, files>>

(***************************************************************************)
(* Bounds of the model.                                                    *)
(***************************************************************************)
MaxTeams == 2
MaxStarters == 2
MaxMatchups == 2

(***************************************************************************)
(* Python values.                                                          *)
(***************************************************************************)
None == "None"
EmptyDict == [k \in {} |-> 0]
Get(d, k, default) == IF k \in DOMAIN d THEN d[k] ELSE default
Or(a, b) == IF a # 0 THEN a ELSE b

RECURSIVE sum(_)
sum(s) == IF Len(s) = 0 THEN 0 ELSE s[1] + sum(Tail(s))

(* round(x, 2) on thousandths: nearest hundredth, a tie going to the even one. *)
Round2(x) ==
    LET q == x \div 10
        r == x % 10
    IN  IF r > 5 \/ (r = 5 /\ q % 2 = 1) THEN (q + 1) * 10 ELSE q * 10

(* The "6.1f" format on thousandths: nearest tenth, a tie going to the even one. *)
Round1(x) ==
    LET q == x \div 100
        r == x % 100
    IN  IF r > 50 \/ (r = 50 /\ q % 2 = 1) THEN (q + 1) * 100 ELSE q * 100

(***************************************************************************)
(* The endpoints main() fetches, in program order.                         *)
(***************************************************************************)
FetchOrder ==
    <<"league_info", "users", "rosters", "nfl_state", "matchups", "players",
      "weekly_projections">>
RequiredFetches ==
    {"league_info", "users", "rosters", "nfl_state", "matchups", "players"}

(***************************************************************************)
(* get_weekly_projections: the list response re-keyed on player_id;        *)
(* entries without a player_id are dropped, a later entry replaces an      *)
(* earlier one with the same id.                                           *)
(***************************************************************************)
ProjectionsDict(data) ==
    LET keep == {i \in DOMAIN data : Get(data[i], "player_id", None) # None}
        ids == {data[i].player_id : i \in keep}
        last(id) == CHOOSE i \in keep :
                        /\ data[i].player_id = id
                        /\ \A j \in keep : data[j].player_id = id => j <= i
    IN  [id \in ids |-> data[last(id)]]

(***************************************************************************)
(* The roster loop of main().                                              *)
(***************************************************************************)
UserLookup(us) ==
    LET ids == {us[i].user_id : i \in DOMAIN us}
        last(id) == CHOOSE i \in DOMAIN us :
                        /\ us[i].user_id = id
                        /\ \A j \in DOMAIN us : us[j].user_id = id => j <= i
    IN  [id \in ids |-> us[last(id)]]

DefaultTeamName_ZeroBased(roster_id) == <<"Team ", roster_id - 1>>

DefaultTeamName(roster_id) == <<"Team ", roster_id>>

TeamName(roster, us) ==
    LET owner_id == Get(roster, "owner_id", None)
        user == Get(UserLookup(us), owner_id, EmptyDict)
    IN  Get(user, "display_name", DefaultTeamName(roster.roster_id))

MatchupData_Last(ms, roster_id) ==
    LET hits == {i \in DOMAIN ms : ms[i].roster_id = roster_id}
    IN  IF hits = {} THEN EmptyDict
        ELSE ms[CHOOSE i \in hits : \A j \in hits : j <= i]

MatchupData(ms, roster_id) ==
    LET hits == {i \in DOMAIN ms : ms[i].roster_id = roster_id}
    IN  IF hits = {} THEN EmptyDict
        ELSE ms[CHOOSE i \in hits : \A j \in hits : i <= j]

TotalCurrent(matchup_data) ==
    LET current_points == Get(matchup_data, "points", 0)
        starters_points == Get(matchup_data, "starters_points", <<>>)
    IN  IF Len(starters_points) > 0 THEN sum(starters_points) ELSE current_points

PlayerProj_StdFirst(stats) ==
    Or(Get(stats, "pts_std", 0),
       Or(Get(stats, "pts_ppr", 0),
          Or(Get(stats, "fantasy_points_ppr", 0),
             Get(stats, "projected_points", 0))))

PlayerProj(stats) ==
    Or(Get(stats, "pts_ppr", 0),
       Or(Get(stats, "fantasy_points_ppr", 0),
          Or(Get(stats, "projected_points", 0),
             Get(stats, "pts_std", 0))))

(* What each starter slot adds to weekly_projected (0 when the slot is skipped). *)
StarterProjections(starters, wp) ==
    [i \in DOMAIN starters |->
        IF DOMAIN wp # {} /\ starters[i] # None /\ starters[i] \in DOMAIN wp
        THEN PlayerProj(Get(wp[starters[i]], "stats", EmptyDict))
        ELSE 0]

WeeklyProjected(starters, wp) == sum(StarterProjections(starters, wp))

ProjectedPoints_ZeroIsData(weekly_projected, total_current) ==
    IF weekly_projected >= 0 THEN weekly_projected ELSE total_current

ProjectedPoints_NoFallback(weekly_projected, total_current) == weekly_projected

ProjectedPoints(weekly_projected, total_current) ==
    IF weekly_projected > 0 THEN weekly_projected ELSE total_current

StartersPlayed(starters, matchup_data) ==
    LET players_points == Get(matchup_data, "players_points", EmptyDict)
    IN  Cardinality({i \in DOMAIN starters :
                        /\ starters[i] # None
                        /\ Get(players_points, starters[i], 0) > 0})

StartersTotal(starters) == Cardinality({i \in DOMAIN starters : starters[i] # None})

TeamSummary(roster, us, ms, wp) ==
    LET matchup_data == MatchupData(ms, roster.roster_id)
        total_current == TotalCurrent(matchup_data)
        starters == Get(roster, "starters", <<>>)
    IN  [team_name |-> TeamName(roster, us),
         roster_id |-> roster.roster_id,
         current_points |-> total_current,
         projected_points |->
             ProjectedPoints(WeeklyProjected(starters, wp), total_current),
         starters_total |-> StartersTotal(starters),
         starters_played |-> StartersPlayed(starters, matchup_data)]

(***************************************************************************)
(* Filter and sort.  list.sort is stable: equal keys keep their order.     *)
(***************************************************************************)
IsActive_KeepZero(team) == team.projected_points >= 0

IsActive(team) == team.projected_points > 0

ActiveTeams(td) == SelectSeq(td, IsActive)

RECURSIVE Insert_Descending(_, _)
Insert_Descending(sorted, team) ==
    IF Len(sorted) = 0 THEN <<team>>
    ELSE IF team.projected_points > Head(sorted).projected_points
         THEN <<team>> \o sorted
         ELSE <<Head(sorted)>> \o Insert_Descending(Tail(sorted), team)

RECURSIVE Insert(_, _)
Insert(sorted, team) ==
    IF Len(sorted) = 0 THEN <<team>>
    ELSE IF team.projected_points < Head(sorted).projected_points
         THEN <<team>> \o sorted
         ELSE <<Head(sorted)>> \o Insert(Tail(sorted), team)

RECURSIVE SortByProjected(_)
SortByProjected(s) ==
    IF Len(s) = 0 THEN <<>>
    ELSE Insert(SortByProjected(SubSeq(s, 1, Len(s) - 1)), s[Len(s)])

(***************************************************************************)
(* Export rows.                                                            *)
(***************************************************************************)
CsvRows(at) ==
    [i \in DOMAIN at |->
        [risk_rank |-> i,
         team_name |-> at[i].team_name,
         current_points |-> at[i].current_points,
         projected_points |-> at[i].projected_points,
         starters_played |-> at[i].starters_played,
         starters_total |-> at[i].starters_total]]

FillColor(i) == IF i <= 2 THEN "red" ELSE IF i <= 5 THEN "yellow" ELSE "green"

ExcelRows(at) ==
    [i \in DOMAIN at |->
        [risk_rank |-> i,
         team_name |-> at[i].team_name,
         current_points |-> at[i].current_points,
         projected_points |-> Round2(at[i].projected_points),
         starters_played |-> at[i].starters_played,
         starters_total |-> at[i].starters_total,
         fill |-> FillColor(i)]]

ConsoleRows(at) ==
    [i \in DOMAIN at |->
        [risk_rank |-> i,
         team_name |-> at[i].team_name,
         current_points |-> Round1(at[i].current_points),
         projected_points |-> Round1(at[i].projected_points),
         starters_played |-> at[i].starters_played,
         starters_total |-> at[i].starters_total]]

(***************************************************************************)
(* Responses of the platform to one run: small sets of each endpoint's     *)
(* possible bodies.                                                        *)
(***************************************************************************)
User(id, name) == [user_id |-> id, display_name |-> <<name>>]

UsersResponses == {<<>>, <<User("u1", "Alice")>>}

RosterChoices(i) ==
    {[roster_id |-> i, starters |-> st] : st \in {<<"p1">>, <<None, "p2">>}}
    \cup {[roster_id |-> i, owner_id |-> "u1", starters |-> st] :
             st \in {<<"p1">>, <<None, "p2">>}}

MatchupChoices(i) ==
    {[roster_id |-> i, points |-> p] : p \in {-1000, 0, 2000}}
    \cup {[roster_id |-> i, points |-> 0, starters_points |-> <<2000, 1000>>,
           players_points |-> [p \in {"p1"} |-> 2000]]}

(* Every list of at most n entries of S. *)
SeqsUpTo(S, n) == UNION {[1..k -> S] : k \in 0..n}

(* The lists of at most MaxTeams entries whose i-th entry has roster id i. *)
InRosterOrder(S) ==
    {s \in SeqsUpTo(S, MaxTeams) : \A i \in DOMAIN s : s[i].roster_id = i}

RostersResponses == InRosterOrder(UNION {RosterChoices(i) : i \in 1..MaxTeams})
MatchupsResponses == InRosterOrder(UNION {MatchupChoices(i) : i \in 1..MaxTeams})

Projection(id, stats) == [player_id |-> id, stats |-> stats]

ProjectionsResponses ==
    {<<>>,
     <<Projection("p1", [pts_ppr |-> 1000])>>,
     <<Projection("p1", [pts_ppr |-> 0, pts_std |-> 3000]),
       Projection("p2", [projected_points |-> -1000])>>,
     <<Projection("p1", [pts_ppr |-> 2000]),
       Projection("p2", [fantasy_points_ppr |-> 2000])>>}

ProjectionFailures == {"transport_error", "non_200", "malformed"}

(***************************************************************************)
(* main(): the state after the argument check, before the first request.   *)
(***************************************************************************)
Init ==
    /\ pc = "league_info"
    /\ exit_code = -1
    /\ requests = <<>>
    /\ failed = "none"
    /\ proj_status = "pending"
    /\ users = <<>>
    /\ rosters = <<>>
    /\ matchups = <<>>
    /\ weekly_projections = EmptyDict
    /\ teams_data = <<>>
    /\ proj_trace = <<>>
    /\ active_teams = <<>>
    /\ csv_rows = <<>>
    /\ xlsx_rows = <<>>
    /\ console_rows = <<>>
    /\ files = {}

data_vars == <<users, rosters, matchups, weekly_projections>>
out_vars == <<teams_data, proj_trace, active_teams, csv_rows, xlsx_rows,
              console_rows, files>>

Abort_Swallowed(endpoint) ==
    /\ failed' = endpoint
    /\ exit_code' = exit_code
    /\ pc' = "process"

(* raise_for_status / a transport error, caught by main()'s except: sys.exit(1). *)
Abort(endpoint) ==
    /\ failed' = endpoint
    /\ exit_code' = 1
    /\ pc' = "exit"

(* A required fetch whose body main() does not join on. *)
Fetch(endpoint, next) ==
    /\ pc = endpoint
    /\ requests' = Append(requests, endpoint)
    /\ \/ /\ pc' = next
          /\ UNCHANGED <<failed, exit_code>>
       \/ Abort(endpoint)
    /\ UNCHANGED <<proj_status, data_vars, out_vars>>

get_league_info == Fetch("league_info", "users")

get_users ==
    /\ pc = "users"
    /\ requests' = Append(requests, "users")
    /\ \/ /\ \E body \in UsersResponses : users' = body
          /\ pc' = "rosters"
          /\ UNCHANGED <<failed, exit_code>>
       \/ Abort("users") /\ UNCHANGED users
    /\ UNCHANGED <<proj_status, rosters, matchups, weekly_projections, out_vars>>

get_rosters ==
    /\ pc = "rosters"
    /\ requests' = Append(requests, "rosters")
    /\ \/ /\ \E body \in RostersResponses : rosters' = body
          /\ pc' = "nfl_state"
          /\ UNCHANGED <<failed, exit_code>>
       \/ Abort("rosters") /\ UNCHANGED rosters
    /\ UNCHANGED <<proj_status, users, matchups, weekly_projections, out_vars>>

get_nfl_state == Fetch("nfl_state", "matchups")

get_matchups ==
    /\ pc = "matchups"
    /\ requests' = Append(requests, "matchups")
    /\ \/ /\ \E body \in MatchupsResponses : matchups' = body
          /\ pc' = "players"
          /\ UNCHANGED <<failed, exit_code>>
       \/ Abort("matchups") /\ UNCHANGED matchups
    /\ UNCHANGED <<proj_status, users, rosters, weekly_projections, out_vars>>

get_players == Fetch("players", "weekly_projections")

get_weekly_projections_Raising ==
    /\ pc = "weekly_projections"
    /\ requests' = Append(requests, "weekly_projections")
    /\ \/ \E data \in ProjectionsResponses :
             /\ weekly_projections' = ProjectionsDict(data)
             /\ proj_status' = "ok"
             /\ pc' = "process"
             /\ UNCHANGED <<failed, exit_code>>
       \/ \E f \in ProjectionFailures :
             /\ weekly_projections' = EmptyDict
             /\ proj_status' = f
             /\ failed' = "weekly_projections"
             /\ exit_code' = 1
             /\ pc' = "exit"
    /\ UNCHANGED <<users, rosters, matchups, out_vars>>

(* Best effort: every failure is caught inside and yields {}. *)
get_weekly_projections ==
    /\ pc = "weekly_projections"
    /\ requests' = Append(requests, "weekly_projections")
    /\ \/ \E data \in ProjectionsResponses :
             /\ weekly_projections' = ProjectionsDict(data)
             /\ proj_status' = "ok"
       \/ \E f \in ProjectionFailures :
             /\ weekly_projections' = EmptyDict
             /\ proj_status' = f
    /\ pc' = "process"
    /\ UNCHANGED <<failed, exit_code, users, rosters, matchups, out_vars>>

(* The roster loop, the filter and the sort. *)
ProcessTeams ==
    /\ pc = "process"
    /\ teams_data' =
           [i \in DOMAIN rosters |->
               TeamSummary(rosters[i], users, matchups, weekly_projections)]
    /\ proj_trace' =
           [i \in DOMAIN rosters |->
               StarterProjections(Get(rosters[i], "starters", <<>>),
                                  weekly_projections)]
    /\ active_teams' = SortByProjected(ActiveTeams(teams_data'))
    /\ pc' = "csv"
    /\ UNCHANGED <<exit_code, requests, failed, proj_status, data_vars,
                   csv_rows, xlsx_rows, console_rows, files>>

WriteCsv ==
    /\ pc = "csv"
    /\ csv_rows' = CsvRows(active_teams)
    /\ files' = files \cup {"csv"}
    /\ pc' = "xlsx"
    /\ UNCHANGED <<exit_code, requests, failed, proj_status, data_vars,
                   teams_data, proj_trace, active_teams, xlsx_rows, console_rows>>

WriteExcel ==
    /\ pc = "xlsx"
    /\ xlsx_rows' = ExcelRows(active_teams)
    /\ files' = files \cup {"xlsx"}
    /\ pc' = "console"
    /\ UNCHANGED <<exit_code, requests, failed, proj_status, data_vars,
                   teams_data, proj_trace, active_teams, csv_rows, console_rows>>

PrintRankings ==
    /\ pc = "console"
    /\ console_rows' = ConsoleRows(active_teams)
    /\ exit_code' = 0
    /\ pc' = "done"
    /\ UNCHANGED <<requests, failed, proj_status, data_vars,
                   teams_data, proj_trace, active_teams, csv_rows, xlsx_rows, files>>

Export == WriteCsv \/ WriteExcel \/ PrintRankings

Next ==
    \/ get_league_info
    \/ get_users
    \/ get_rosters
    \/ get_nfl_state
    \/ get_matchups
    \/ get_players
    \/ get_weekly_projections
    \/ ProcessTeams
    \/ Export

Spec == Init /\ [][Next]_vars

(***************************************************************************)
(* The join and rank steps on their own: the state main() is in once all   *)
(* seven fetches have returned, for wider sets of response bodies.  Each   *)
(* disjunct of InitJoin widens one input of the roster loop.               *)
(***************************************************************************)
Fetched(us, rs, ms, wp, status) ==
    /\ pc = "process"
    /\ exit_code = -1
    /\ requests = FetchOrder
    /\ failed = "none"
    /\ proj_status = status
    /\ users = us
    /\ rosters = rs
    /\ matchups = ms
    /\ weekly_projections = wp
    /\ teams_data = <<>>
    /\ proj_trace = <<>>
    /\ active_teams = <<>>
    /\ csv_rows = <<>>
    /\ xlsx_rows = <<>>
    /\ console_rows = <<>>
    /\ files = {}

(* Owners: absent key, null, a fetched user, a user that was not fetched. *)
JoinUsers ==
    {<<>>,
     <<User("u1", "Alice")>>,
     <<[user_id |-> "u1"]>>,
     <<User("u2", "Bob"), User("u1", "Alice")>>}

OwnerChoices(i) ==
    {[roster_id |-> i, starters |-> <<>>]}
    \cup {[roster_id |-> i, owner_id |-> o, starters |-> <<>>] :
             o \in {None, "u1", "u3"}}

InitOwners ==
    \E us \in JoinUsers,
       rs \in InRosterOrder(UNION {OwnerChoices(i) : i \in 1..MaxTeams}) :
        /\ Len(rs) > 0
        /\ Fetched(us, rs, <<>>, EmptyDict, "ok")

(* Matchups: none, one or several per roster id, with and without the breakdown. *)
JoinMatchups ==
    UNION {{[roster_id |-> i, points |-> p] : p \in {-1000, 0, 3000}}
           \cup {[roster_id |-> i, points |-> 3000, starters_points |-> sp,
                  players_points |-> [p \in {"p1"} |-> 1000]] :
                    sp \in {<<>>, <<0>>, <<1000, 1000>>}} : i \in 1..MaxTeams}

InitMatchups ==
    \E i \in 1..MaxTeams, ms \in SeqsUpTo(JoinMatchups, MaxMatchups) :
        Fetched(<<>>, <<[roster_id |-> i, starters |-> <<"p1">>]>>, ms,
                EmptyDict, "ok")

(* Projections: every combination of the four stats fields for one player. *)
StatsOf(fields) ==
    {[f \in fields |-> v[f]] :
        v \in [fields -> {0, 1000, 2000, -3000, 4000}]}

JoinStats ==
    {st \in UNION {StatsOf(fields) :
                      fields \in SUBSET {"pts_ppr", "fantasy_points_ppr",
                                         "projected_points", "pts_std"}} :
        /\ Get(st, "pts_ppr", 0) \in {0, 1000}
        /\ Get(st, "fantasy_points_ppr", 0) \in {0, 2000}
        /\ Get(st, "projected_points", 0) \in {0, -3000}
        /\ Get(st, "pts_std", 0) \in {0, 4000}}

JoinProjections ==
    LET first == {<<>>} \cup {<<Projection("p1", st)>> : st \in JoinStats}
        second == {<<>>,
                   <<[player_id |-> "p2"]>>,
                   <<Projection("p2", [pts_std |-> -1000])>>,
                   <<Projection("p2", [pts_ppr |-> 2000])>>}
    IN  {a \o b : a \in first, b \in second}
        \cup {<<[stats |-> [pts_ppr |-> 4000]]>>,
              <<Projection("p1", [pts_ppr |-> 1000]),
                Projection("p1", [pts_ppr |-> 2000])>>}

JoinLineups ==
    {[roster_id |-> 1, starters |-> st] :
        st \in SeqsUpTo({None, "p1", "p2"}, MaxStarters)}
    \cup {[roster_id |-> 1]}

JoinCurrent ==
    {<<>>} \cup {<<[roster_id |-> 1, points |-> p]>> : p \in {-1000, 0, 3000}}

InitProjections ==
    \E r \in JoinLineups, ms \in JoinCurrent :
        \/ \E data \in JoinProjections :
              Fetched(<<>>, <<r>>, ms, ProjectionsDict(data), "ok")
        \/ \E f \in ProjectionFailures :
              Fetched(<<>>, <<r>>, ms, EmptyDict, f)

InitJoin == InitOwners \/ InitMatchups \/ InitProjections

NextJoin == ProcessTeams \/ Export

SpecJoin == InitJoin /\ [][NextJoin]_vars

(***************************************************************************)
(* The three-team scenario: A's starters have projections summing to 0     *)
(* and A has 40.0 current points; B's projections sum to 85.4 with 10.2    *)
(* current points; C's starters have no projection record and C has 22.0   *)
(* current points.  The rosters come in any order, and each figure in any  *)
(* of the shapes the responses can give it.                                *)
(***************************************************************************)
ScenarioUsers == <<User("uA", "A"), User("uB", "B"), User("uC", "C")>>

ScenarioRoster(i) ==
    IF i = 1 THEN [roster_id |-> 1, owner_id |-> "uA", starters |-> <<"a1", "a2">>]
    ELSE IF i = 2
         THEN [roster_id |-> 2, owner_id |-> "uB", starters |-> <<"b1", "b2">>]
         ELSE [roster_id |-> 3, owner_id |-> "uC", starters |-> <<"c1", None>>]

ScenarioRosters ==
    {[k \in 1..3 |-> ScenarioRoster(order[k])] :
        order \in {o \in [1..3 -> 1..3] : \A a, b \in 1..3 : a # b => o[a] # o[b]}}

(* A total given by the points field alone, or by the per-starter breakdown. *)
ScenarioMatchup(i, total, first) ==
    {[roster_id |-> i, points |-> total],
     [roster_id |-> i, points |-> total,
      starters_points |-> <<first, total - first>>]}

ScenarioMatchups ==
    {<<a, b, c>> : a \in ScenarioMatchup(1, 40000, 25000),
                   b \in ScenarioMatchup(2, 10200, 10200),
                   c \in ScenarioMatchup(3, 22000, 20000)}

ScenarioZero ==
    {<<Projection("a1", [pts_ppr |-> 0]), Projection("a2", [pts_ppr |-> 0])>>,
     <<Projection("a1", [pts_ppr |-> 5000]), Projection("a2", [pts_std |-> -5000])>>,
     <<Projection("a1", [projected_points |-> 0, pts_std |-> 0]),
       [player_id |-> "a2"]>>}

ScenarioB ==
    {<<Projection("b1", [pts_ppr |-> 85400])>>,
     <<Projection("b1", [pts_ppr |-> 42700]),
       Projection("b2", [pts_ppr |-> 0, fantasy_points_ppr |-> 42700])>>}

InitScenario ==
    \E rs \in ScenarioRosters, ms \in ScenarioMatchups,
       a \in ScenarioZero, b \in ScenarioB :
        Fetched(ScenarioUsers, rs, ms, ProjectionsDict(a \o b), "ok")

SpecScenario == InitScenario /\ [][NextJoin]_vars

(***************************************************************************)
(* Properties.                                                             *)
(***************************************************************************)
Processed == pc \in {"csv", "xlsx", "console", "done"}

Ranked(rows) == [i \in DOMAIN rows |-> <<rows[i].team_name, rows[i].projected_points>>]

(* C1, as stated: in the three-team scenario team A is excluded, and the   *)
(* ranked output is C (projected 22.0) followed by B (projected 85.4).     *)
C1_AExcluded ==
    pc = "done" => Ranked(csv_rows) = << <<<<"C">>, 22000>>, <<<<"B">>, 85400>> >>

(* C1, amended: in the three-team scenario team A falls back to its        *)
(* current points, 40.0, and is ranked: the output is C (22.0), A (40.0),  *)
(* B (85.4), in the CSV, the spreadsheet and on the console.               *)
C1_ScenarioRanking ==
    LET expected ==
            << <<<<"C">>, 22000>>, <<<<"A">>, 40000>>, <<<<"B">>, 85400>> >>
    IN  /\ Processed => Ranked(active_teams) = expected
        /\ pc = "done" =>
              /\ Ranked(csv_rows) = expected
              /\ Ranked(xlsx_rows) = expected
              /\ Ranked(console_rows) = expected

C1_Witness ==
    /\ pc = "done"
    /\ Len(csv_rows) = 3
    /\ csv_rows[2].team_name = <<"A">>
    /\ rosters[1].roster_id = 2

(* C2: projected_points is the sum of the starters' weekly projections     *)
(* when that sum is strictly positive, and current_points otherwise.       *)
C2_ProjectedOrFallback ==
    Processed =>
        \A i \in DOMAIN teams_data :
            LET weekly == sum(proj_trace[i])
            IN  teams_data[i].projected_points =
                    IF weekly > 0 THEN weekly ELSE teams_data[i].current_points

C2_Witness ==
    /\ pc = "done"
    /\ DOMAIN weekly_projections # {}
    /\ \E i \in DOMAIN teams_data :
          /\ Len(proj_trace[i]) = 2
          /\ proj_trace[i][1] # 0
          /\ sum(proj_trace[i]) = 0
          /\ teams_data[i].current_points = 3000
          /\ teams_data[i].projected_points = 3000

(* C3: no team whose final projected_points is 0 is in the ranked list,    *)
(* and the CSV, the spreadsheet and the console list exactly that list.    *)
SameTeams(rows) ==
    /\ Len(rows) = Len(active_teams)
    /\ \A i \in DOMAIN rows : rows[i].team_name = active_teams[i].team_name

C3_ZeroNeverRanked ==
    /\ Processed =>
          \A i \in DOMAIN teams_data :
              teams_data[i].projected_points = 0 =>
                  \A j \in DOMAIN active_teams :
                      active_teams[j].roster_id # teams_data[i].roster_id
    /\ "csv" \in files => SameTeams(csv_rows)
    /\ "xlsx" \in files => SameTeams(xlsx_rows)
    /\ pc = "done" => SameTeams(console_rows)

C3_Witness ==
    /\ pc = "done"
    /\ Len(teams_data) = 2
    /\ teams_data[1].projected_points = 0
    /\ Len(csv_rows) = 1
    /\ Len(xlsx_rows) = 1
    /\ Len(console_rows) = 1

(* C4: the exported list is non-decreasing in projected_points from each   *)
(* rank to the next, and the ranks are 1..n in list order.                 *)
RankedAscending(rows) ==
    /\ \A i \in DOMAIN rows : rows[i].risk_rank = i
    /\ \A i \in 1..(Len(rows) - 1) :
          rows[i].projected_points <= rows[i + 1].projected_points

C4_SortedAscending ==
    /\ RankedAscending(csv_rows)
    /\ RankedAscending(xlsx_rows)
    /\ RankedAscending(console_rows)

C4_Witness ==
    /\ pc = "done"
    /\ Len(csv_rows) = 2
    /\ teams_data[1].projected_points > teams_data[2].projected_points
    /\ csv_rows[1].projected_points < csv_rows[2].projected_points

(* C5: current_points is the sum of the per-starter scored points when     *)
(* that sequence is present and non-empty; otherwise the points field of   *)
(* the first matchup with the roster's id, or 0 when none has it.          *)
RECURSIVE TotalOfFirst(_, _)
TotalOfFirst(s, n) == IF n = 0 THEN 0 ELSE TotalOfFirst(s, n - 1) + s[n]

ClaimedCurrent(roster_id) ==
    LET hits == {k \in DOMAIN matchups : matchups[k].roster_id = roster_id}
    IN  IF hits = {} THEN 0
        ELSE LET m == matchups[CHOOSE k \in hits : \A j \in hits : k <= j]
             IN  IF "starters_points" \in DOMAIN m /\ m.starters_points # <<>>
                 THEN TotalOfFirst(m.starters_points, Len(m.starters_points))
                 ELSE m.points

C5_CurrentPoints ==
    Processed =>
        \A i \in DOMAIN teams_data :
            teams_data[i].current_points = ClaimedCurrent(rosters[i].roster_id)

C5_Witness ==
    /\ pc = "done"
    /\ Len(matchups) = 2
    /\ matchups[1].roster_id = rosters[1].roster_id
    /\ matchups[2].roster_id = rosters[1].roster_id
    /\ "starters_points" \in DOMAIN matchups[1]
    /\ matchups[1].starters_points = <<1000, 1000>>
    /\ "starters_points" \notin DOMAIN matchups[2]
    /\ matchups[2].points = -1000
    /\ teams_data[1].current_points = 2000

(* C6: a roster with no owning user (no owner id, or one that is no        *)
(* fetched user's id) is named "Team " followed by its roster id, and      *)
(* there is exactly one team summary per roster.                           *)
NoOwnerFound(roster) ==
    \/ "owner_id" \notin DOMAIN roster
    \/ roster.owner_id = None
    \/ \A k \in DOMAIN users : users[k].user_id # roster.owner_id

C6_UnownedTeamName ==
    Processed =>
        /\ Len(teams_data) = Len(rosters)
        /\ \A i \in DOMAIN rosters :
              /\ teams_data[i].roster_id = rosters[i].roster_id
              /\ NoOwnerFound(rosters[i]) =>
                    teams_data[i].team_name = <<"Team ", rosters[i].roster_id>>

C6_Witness ==
    /\ pc = "done"
    /\ Len(users) = 2
    /\ Len(rosters) = 2
    /\ "owner_id" \in DOMAIN rosters[1]
    /\ rosters[1].owner_id = "u3"
    /\ teams_data[1].team_name = <<"Team ", 1>>
    /\ teams_data[2].team_name = <<"Alice">>

(* C7, as stated: the projected points of every team summary is never      *)
(* negative, whatever the matchup points and the player projections are.   *)
C7_ProjectedNeverNegative ==
    \A i \in DOMAIN teams_data : teams_data[i].projected_points >= 0

(* C8: when a required fetch fails the run exits with code 1, the failed   *)
(* request is the last one issued, and no file is written; files are       *)
(* written only after all seven fetches.                                   *)
RequestsThrough(endpoint) ==
    SubSeq(FetchOrder, 1, CHOOSE k \in DOMAIN FetchOrder : FetchOrder[k] = endpoint)

C8_FetchFailureAborts ==
    /\ failed # "none" =>
          /\ failed \in RequiredFetches
          /\ pc = "exit"
          /\ exit_code = 1
          /\ requests = RequestsThrough(failed)
          /\ files = {}
          /\ csv_rows = <<>> /\ xlsx_rows = <<>>
    /\ files # {} => requests = FetchOrder
    /\ pc = "exit" => failed # "none"

C8_Witness ==
    /\ failed = "matchups"
    /\ pc = "exit"
    /\ Len(rosters) = 2
    /\ Len(requests) = 5

(* C9: a failed weekly-projections fetch yields an empty mapping and does  *)
(* not abort the run, which goes on to the export with every team's        *)
(* projected_points equal to its current_points.                           *)
C9_ProjectionFailureAbsorbed ==
    proj_status \in ProjectionFailures =>
        /\ DOMAIN weekly_projections = {}
        /\ failed = "none"
        /\ pc # "exit"
        /\ exit_code # 1
        /\ Processed =>
              /\ Len(teams_data) = Len(rosters)
              /\ \A i \in DOMAIN teams_data :
                    teams_data[i].projected_points = teams_data[i].current_points

C9_Witness ==
    /\ proj_status = "malformed"
    /\ pc = "done"
    /\ exit_code = 0
    /\ files = {"csv", "xlsx"}
    /\ Len(teams_data) = 2
    /\ teams_data[1].projected_points = 2000
    /\ teams_data[2].projected_points = -1000

(* C10: a starter with a projection record contributes the first non-zero, *)
(* non-absent value among pts_ppr, fantasy_points_ppr, projected_points,   *)
(* pts_std in that order, and 0 when there is none; an empty slot and a    *)
(* starter without a record contribute 0.                                  *)
StatFields == <<"pts_ppr", "fantasy_points_ppr", "projected_points", "pts_std">>

ClaimedContribution(slot) ==
    IF slot = None \/ slot \notin DOMAIN weekly_projections THEN 0
    ELSE LET record == weekly_projections[slot]
             stats == IF "stats" \in DOMAIN record THEN record.stats ELSE EmptyDict
             live == {k \in DOMAIN StatFields :
                         /\ StatFields[k] \in DOMAIN stats
                         /\ stats[StatFields[k]] # 0}
         IN  IF live = {} THEN 0
             ELSE stats[StatFields[CHOOSE k \in live : \A j \in live : k <= j]]

C10_FirstNonZeroField ==
    Processed =>
        \A i \in DOMAIN rosters :
            LET starters == IF "starters" \in DOMAIN rosters[i]
                            THEN rosters[i].starters ELSE <<>>
            IN  /\ Len(proj_trace[i]) = Len(starters)
                /\ \A k \in DOMAIN starters :
                      proj_trace[i][k] = ClaimedContribution(starters[k])

C10_Witness ==
    /\ pc = "done"
    /\ Len(rosters) = 1
    /\ "starters" \in DOMAIN rosters[1]
    /\ rosters[1].starters = <<"p1", None>>
    /\ "p1" \in DOMAIN weekly_projections
    /\ DOMAIN weekly_projections["p1"].stats =
           {"pts_ppr", "projected_points", "pts_std"}
    /\ weekly_projections["p1"].stats.pts_ppr = 0
    /\ weekly_projections["p1"].stats.projected_points = -3000
    /\ weekly_projections["p1"].stats.pts_std = 4000
    /\ proj_trace[1] = <<-3000, 0>>

====
